---- MODULE Spec2Model ----
(***************************************************************************)
(* Model of the WebsiteScraper class of src/index.js: the crawl loop of    *)
(* scrape(), the per-page steps of scrapePage(), the link filter           *)
(* shouldScrapeUrl(), the page-path function urlToFilePath() and the       *)
(* resource fetcher downloadResource().                                    *)
(*                                                                         *)
(* A URL string is a record of its components as written.  pathname,       *)
(* search and hash are sequences of one-character strings, so that the     *)
(* string operations of the code (endsWith, toLowerCase, replace) are      *)
(* computed and not assumed.                                               *)
(*                                                                         *)
(* Scope: the bytes of a saved file are abstracted to what produced them   *)
(* (page, placeholder, resource body, stylesheet, empty file).  A saved    *)
(* page carries the value of each of its resource attributes after the     *)
(* rewrite of replaceUrlInAttribute(); the rewrite of an anchor is the     *)
(* operator rewriteAnchor; style attributes are not part of the model.     *)
(* A stylesheet is the sequence of its url() occurrences, and              *)
(* processCssFile() runs on it from the resource loop and from the CSS     *)
(* pass.  Page files are written where path.join puts them.  Spec takes    *)
(* every Location header to parse and every chain of redirects to end;     *)
(* CrashSpec adds the header that does not parse, CycleSpec the redirect   *)
(* that leads back to the URL of the call.  The path functions are also    *)
(* run on their own, under ResolverSpec, and the rewrite of a src, href or *)
(* srcset attribute under RewriteSpec.                                     *)
(***************************************************************************)
EXTENDS Integers, Sequences, FiniteSets, Bags, TLC

\* ------------------------------------------------------------------ bounds
\* anchors extracted from one rendered page (pageData.links)
MaxLinks == 2
\* distinct resource URLs extracted from one rendered page (uniqueResources)
MaxResources == 2
\* 301/302 answers the server gives within one downloadResource call
MaxRedirects == 1
\* the history bags stop counting at this many copies of one URL
MaxCount == 3
\* calls of the path functions made on their own
MaxCalls == 2

\* ------------------------------------------------------- string helpers
EndsWith(s, suf) ==
    /\ Len(s) >= Len(suf)
    /\ SubSeq(s, Len(s) - Len(suf) + 1, Len(s)) = suf

StartsWith(s, pre) ==
    /\ Len(s) >= Len(pre)
    /\ SubSeq(s, 1, Len(pre)) = pre

UpperCaseLetters ==
    <<"A","B","C","D","E","F","G","H","I","J","K","L","M",
      "N","O","P","Q","R","S","T","U","V","W","X","Y","Z">>

LowerCaseLetters ==
    <<"a","b","c","d","e","f","g","h","i","j","k","l","m",
      "n","o","p","q","r","s","t","u","v","w","x","y","z">>

LowerChar(c) ==
    IF \E i \in 1..26 : UpperCaseLetters[i] = c
    THEN LowerCaseLetters[CHOOSE i \in 1..26 : UpperCaseLetters[i] = c]
    ELSE c

ToLowerCase(s) == [i \in 1..Len(s) |-> LowerChar(s[i])]

\* String.replace(/[...]/g, '_') for a character class
ReplaceChars(s, class) == [i \in 1..Len(s) |-> IF s[i] \in class THEN "_" ELSE s[i]]

\* /[<>:"|?*]/ of urlToFilePath and getResourcePath
InvalidFileChars == {"<", ">", ":", "\"", "|", "?", "*"}

\* /[<>:"|?*&=]/ of urlToFilePath and getResourcePath
InvalidQueryChars == InvalidFileChars \cup {"&", "="}

\* ------------------------------------------------------------------- URLs
Url(protocol, hostname, port, pathname, search, hash) ==
    [protocol |-> protocol, hostname |-> hostname, port |-> port,
     pathname |-> pathname, search |-> search, hash |-> hash]

\* new URL(s).pathname: an http(s) URL written without a path has pathname "/"
Pathname(u) == IF u.pathname = <<>> THEN <<"/">> ELSE u.pathname

\* new URL(s).search
Search(u) == u.search

\* new URL(s).hash: a URL written with a trailing "#" has the empty hash
Hash(u) == IF u.hash = <<"#">> THEN <<>> ELSE u.hash

\* new URL(s).hostname (never contains the port)
Hostname(u) == u.hostname

\* new URL(s).host (hostname and port)
Host(u) == <<u.hostname, u.port>>

\* "Skip URLs that end with just a hash": url.endsWith('#') on the URL string
EndsWithHashSign(u) == u.hash # <<>> /\ u.hash[Len(u.hash)] = "#"

\* `${protocol}//${hostname}${pathname}${search}`
CleanUrl(u) ==
    [protocol |-> u.protocol, hostname |-> u.hostname, port |-> "",
     pathname |-> Pathname(u), search |-> Search(u), hash |-> <<>>]

\* "same page": protocol + host + path + query
PageKey(u) == <<u.protocol, Host(u), Pathname(u), Search(u)>>

\* ------------------------------------------------------- Path Resolver
\* the string "index"
IndexName == <<"i","n","d","e","x">>

\* the string ".html"
HtmlExt == <<".","h","t","m","l">>

\* new URL(url) does not throw
Parses(u) == u.protocol # ""

\* urlToFilePath(url)
urlToFilePath(u) ==
    IF ~ Parses(u) THEN <<"u","n","k","n","o","w","n","_","p","a","g","e">> ELSE
    LET p0 == Pathname(u)
        p1 == IF StartsWith(p0, <<"/">>) THEN SubSeq(p0, 2, Len(p0)) ELSE p0
        p2 == IF p1 = <<>> \/ EndsWith(p1, <<"/">>) THEN p1 \o IndexName ELSE p1
        p3 == ReplaceChars(p2, InvalidFileChars)
        q  == Search(u)
    IN  IF q # <<>>
        THEN p3 \o <<"_">> \o ReplaceChars(SubSeq(q, 2, Len(q)), InvalidQueryChars)
        ELSE p3

\* the fileName computed by scrapePage before saving a page or a placeholder
PageFileName(u) ==
    LET filePath == urlToFilePath(u)
    IN  IF EndsWith(filePath, HtmlExt) THEN filePath ELSE filePath \o HtmlExt

\* path.join(this.outputDir, fileName), written relative to outputDir: join
\* normalises its result, so a "/" that starts the name or follows another
\* "/" goes away (no name of a crawl has a "." or ".." segment)
JoinOutputDir(fileName) ==
    LET dropped == { i \in 1..Len(fileName) :
                       fileName[i] = "/" /\ (i = 1 \/ fileName[i - 1] = "/") }
        kept    == (1..Len(fileName)) \ dropped
    IN  [k \in 1..Cardinality(kept) |->
            fileName[CHOOSE i \in kept : Cardinality({ j \in kept : j <= i }) = k]]

\* String.includes(sub)
Includes(s, sub) ==
    \E i \in 1..(Len(s) - Len(sub) + 1) : SubSeq(s, i, i + Len(sub) - 1) = sub

\* the largest index of character c in s, 0 when c does not occur
LastIndexOf(s, c) ==
    IF \E i \in 1..Len(s) : s[i] = c
    THEN CHOOSE i \in 1..Len(s) : s[i] = c /\ \A j \in (i+1)..Len(s) : s[j] # c
    ELSE 0

\* path.extname(p) of Node (posix): the extension of the last path segment,
\* trailing slashes ignored; "" for no dot, a leading dot only, or ".."
ExtName(p) ==
    LET end == IF \E i \in 1..Len(p) : p[i] # "/"
               THEN CHOOSE i \in 1..Len(p) : p[i] # "/" /\ \A j \in (i+1)..Len(p) : p[j] = "/"
               ELSE 0
        base == IF end = 0 THEN <<>>
                ELSE LET head == SubSeq(p, 1, end)
                     IN  SubSeq(head, LastIndexOf(head, "/") + 1, end)
        dot == LastIndexOf(base, ".")
    IN  IF dot = 0 \/ dot = 1 \/ base = <<".", ".">>
        THEN <<>>
        ELSE SubSeq(base, dot, Len(base))

\* String.slice(0, -n); slice(0, -0) is slice(0, 0), the empty string
SliceOffEnd(s, n) == IF n = 0 THEN <<>> ELSE SubSeq(s, 1, Len(s) - n)

\* the extension getResourcePath appends to a path that has none
GuessedExtension(pathname) ==
    IF Includes(pathname, <<"/","c","s","s","/">>) \/ Includes(pathname, <<"s","t","y","l","e","s","h","e","e","t">>) \/ Includes(pathname, <<".","c","s","s">>)
    THEN <<".","c","s","s">>
    ELSE IF Includes(pathname, <<"/","j","s","/">>) \/ Includes(pathname, <<"j","a","v","a","s","c","r","i","p","t">>) \/ Includes(pathname, <<".","j","s">>)
    THEN <<".","j","s">>
    ELSE IF Includes(pathname, <<"/","i","m","g","/">>) \/ Includes(pathname, <<"/","i","m","a","g","e","s","/">>) \/ Includes(pathname, <<"i","m","a","g","e">>)
    THEN <<".","p","n","g">>
    ELSE IF Includes(pathname, <<"/","p","d","f","/">>) \/ Includes(pathname, <<"d","o","c","u","m","e","n","t">>)
    THEN <<".","p","d","f">>
    ELSE IF Includes(pathname, <<"/","v","i","d","e","o","/">>) \/ Includes(pathname, <<"m","p","4">>)
    THEN <<".","m","p","4">>
    ELSE IF Includes(pathname, <<"/","a","u","d","i","o","/">>) \/ Includes(pathname, <<"m","p","3">>)
    THEN <<".","m","p","3">>
    ELSE <<".","r","e","s","o","u","r","c","e">>

\* getResourcePath(url); now is the value of Date.now()
getResourcePath(u, now) ==
    IF ~ Parses(u)
    THEN <<"a","s","s","e","t","s","/","u","n","k","n","o","w","n","_","r","e","s","o","u","r","c","e","_">> \o now
    ELSE
    LET p0 == Pathname(u)
        p1 == IF StartsWith(p0, <<"/">>) THEN SubSeq(p0, 2, Len(p0)) ELSE p0
        p2 == IF p1 = <<>> THEN <<"r","e","s","o","u","r","c","e","_">> \o now ELSE p1
        p3 == IF StartsWith(p2, <<"a","s","s","e","t","s","/">>) THEN SubSeq(p2, 8, Len(p2)) ELSE p2
        p4 == ReplaceChars(p3, InvalidFileChars)
        lastSegment == SubSeq(p4, LastIndexOf(p4, "/") + 1, Len(p4))
        p5 == IF ExtName(p4) = <<>> /\ ~ Includes(lastSegment, <<".">>) /\ Len(lastSegment) > 0
              THEN p4 \o GuessedExtension(p4)
              ELSE p4
        q  == Search(u)
        ext == ExtName(p5)
        name == SliceOffEnd(p5, Len(ext))
        p6 == IF q # <<>>
              THEN name \o <<"_">> \o ReplaceChars(SubSeq(q, 2, Len(q)), InvalidQueryChars) \o ext
              ELSE p5
    IN  <<"a","s","s","e","t","s","/">> \o p6

\* ------------------------------------------------------ inputs of a run
\* the root URL as the caller writes it: normalised, or without a path
BaseUrls ==
    { Url("https:", "ex.com", "", <<"/">>, <<>>, <<>>),
      Url("https:", "ex.com", "", <<>>, <<>>, <<>>) }

\* absolute hrefs the renderer can return for the anchors of a page
LinkUniverse ==
    { Url("https:", "ex.com", "", <<"/">>, <<>>, <<>>),
      Url("https:", "ex.com", "", <<"/","a">>, <<>>, <<>>),
      Url("https:", "ex.com", "", <<"/","a">>, <<>>, <<"#","s">>),
      Url("https:", "ex.com", "", <<"/","a">>, <<>>, <<"#">>),
      Url("https:", "ex.com", "", <<"/">>, <<>>, <<"#","s">>),
      Url("https:", "ex.com", "", <<"/","a">>, <<"?","q","=","1">>, <<>>),
      Url("https:", "ex.com", "8080", <<"/","a">>, <<>>, <<>>),
      Url("https:", "cdn.net", "", <<"/","a">>, <<>>, <<>>),
      Url("ftp:", "ex.com", "", <<"/","a">>, <<>>, <<>>),
      Url("https:", "ex.com", "", <<"/","a",".","p","d","f">>, <<>>, <<>>),
      Url("https:", "ex.com", "", <<"/","a",".","P","D","F">>, <<>>, <<>>) }

\* absolute URLs the renderer can return for the resources of a page
ResourceUniverse ==
    { Url("https:", "ex.com", "", <<"/","s",".","c","s","s">>, <<>>, <<>>),
      Url("https:", "cdn.net", "", <<"/","s",".","c","s","s">>, <<>>, <<>>) }

\* the site of the worked example: the root links to /about, both pages load
\* /style.css
ExampleAnchors ==
    { Url("https:", "ex.com", "", <<"/","a","b","o","u","t">>, <<>>, <<>>) }

ExampleResources ==
    { Url("https:", "ex.com", "", <<"/","s","t","y","l","e",".","c","s","s">>, <<>>, <<>>) }

\* URLs a Location header can name
RedirectTargets ==
    { Url("https:", "ex.com", "", <<"/","t",".","c","s","s">>, <<>>, <<>>),
      Url("https:", "cdn.net", "", <<"/","t",".","c","s","s">>, <<>>, <<>>) }

\* a site with a page one directory deep, linked with a doubled slash
NestedAnchors == { Url("https:", "ex.com", "", <<"/","d","/","/","a">>, <<>>, <<>>) }

NestedResources == { Url("https:", "ex.com", "", <<"/","s",".","c","s","s">>, <<>>, <<>>) }

\* a site whose pages load a stylesheet and an image; the stylesheet has two
\* url() references, one to its own host and one to another
StyledResources ==
    { Url("https:", "ex.com", "", <<"/","s",".","c","s","s">>, <<>>, <<>>),
      Url("https:", "ex.com", "", <<"/","i",".","p","n","g">>, <<>>, <<>>) }

StyledSheet ==
    << [quoted |-> FALSE, value |-> << "https:", "//", "ex.com", "/","b",".","p","n","g" >>],
       [quoted |-> FALSE, value |-> << "https:", "//", "cdn.net", "/","b",".","p","n","g" >>] >>

\* a stylesheet whose only url() reference is to another host
OffHostSheet ==
    << [quoted |-> FALSE, value |-> << "https:", "//", "cdn.net", "/","b",".","p","n","g" >>] >>

\* URLs the url() references of the stylesheets resolve to on the host
SheetResources ==
    { Url("https:", "ex.com", "", <<"/","b",".","p","n","g">>, <<>>, <<>>),
      Url("https:", "ex.com", "", <<"/","c",".","p","n","g">>, <<>>, <<>>) }

\* a site with a page whose URL ends in ".html"; its pages load two scripts
\* that getResourcePath gives one local path
HtmlAnchors == { Url("https:", "ex.com", "", <<"/","x",".","h","t","m","l">>, <<>>, <<>>) }

CollidingResources ==
    { Url("https:", "ex.com", "", <<"/","s",".","j","s">>, <<>>, <<>>),
      Url("https:", "ex.com", "", <<"/","a","s","s","e","t","s","/","s",".","j","s">>, <<>>, <<>>) }

\* a stylesheet with two url() references to its own host
TwoRefSheet ==
    << [quoted |-> FALSE, value |-> << "https:", "//", "ex.com", "/","b",".","p","n","g" >>],
       [quoted |-> FALSE, value |-> << "https:", "//", "ex.com", "/","c",".","p","n","g" >>] >>

\* the sites a run can be pointed at: the root URLs the caller can give, what
\* the pages of the site can contain (anchors, resources, which of the
\* resources are <link rel="stylesheet">, the url() references the
\* stylesheets are served with), whether rendering its pages can fail and
\* what its server answers
\* (a site rich in links, a site whose pages fail to render, a site with
\* resources, the worked example, a nested page, a stylesheet with
\* references, a page named .html with colliding scripts, a stylesheet with
\* two references to its host)
\* what a server can answer to a GET: status 200, a redirect with a Location
\* header, a redirect without one, another status, or a transport error /
\* timeout
AllAnswers == {"200", "redirect", "nolocation", "other", "error"}

Sites ==
    { [roots |-> BaseUrls, anchors |-> LinkUniverse, resources |-> {},
       styles |-> {}, sheet |-> <<>>, flaky |-> FALSE, answers |-> AllAnswers],
      [roots |-> BaseUrls,
       anchors |-> { Url("https:", "ex.com", "", <<"/">>, <<>>, <<>>),
                     Url("https:", "ex.com", "", <<"/","a">>, <<>>, <<>>) },
       resources |-> {}, styles |-> {}, sheet |-> <<>>, flaky |-> TRUE, answers |-> AllAnswers],
      [roots |-> { Url("https:", "ex.com", "", <<"/">>, <<>>, <<>>) },
       anchors |-> { Url("https:", "ex.com", "", <<"/","a">>, <<>>, <<>>) },
       resources |-> ResourceUniverse, styles |-> ResourceUniverse, sheet |-> <<>>,
       flaky |-> FALSE, answers |-> AllAnswers],
      [roots |-> { Url("https:", "ex.com", "", <<"/">>, <<>>, <<>>) },
       anchors |-> ExampleAnchors, resources |-> ExampleResources,
       styles |-> ExampleResources, sheet |-> <<>>, flaky |-> FALSE, answers |-> AllAnswers],
      [roots |-> { Url("https:", "ex.com", "", <<"/">>, <<>>, <<>>) },
       anchors |-> NestedAnchors, resources |-> NestedResources,
       styles |-> NestedResources, sheet |-> OffHostSheet, flaky |-> FALSE, answers |-> AllAnswers],
      [roots |-> { Url("https:", "ex.com", "", <<"/">>, <<>>, <<>>) },
       anchors |-> { Url("https:", "cdn.net", "", <<"/","a">>, <<>>, <<>>) },
       resources |-> StyledResources,
       styles |-> { Url("https:", "ex.com", "", <<"/","s",".","c","s","s">>, <<>>, <<>>) },
       sheet |-> StyledSheet, flaky |-> FALSE, answers |-> {"200", "other", "error"}],
      [roots |-> { Url("https:", "ex.com", "", <<"/">>, <<>>, <<>>) },
       anchors |-> HtmlAnchors, resources |-> CollidingResources,
       styles |-> {}, sheet |-> <<>>, flaky |-> FALSE, answers |-> {"200"}],
      [roots |-> { Url("https:", "ex.com", "", <<"/">>, <<>>, <<>>) },
       anchors |-> { Url("https:", "cdn.net", "", <<"/","a">>, <<>>, <<>>) },
       resources |-> NestedResources, styles |-> NestedResources,
       sheet |-> TwoRefSheet, flaky |-> FALSE, answers |-> {"200", "other"}] }

\* values of Date.now()
Clock == { <<"1">>, <<"2">> }

\* the arguments the path functions are called with on their own: resource
\* URLs without, with one and with two assets/ prefixes, without an extension, with a
\* query, with an empty path, and a string that is no URL
PathInputs ==
    { Url("https:", "ex.com", "", <<"/","s",".","c","s","s">>, <<>>, <<>>),
      Url("https:", "ex.com", "", <<"/","a","s","s","e","t","s","/","s",".","c","s","s">>, <<>>, <<>>),
      Url("https:", "ex.com", "", <<"/","a","s","s","e","t","s","/","a","s","s","e","t","s","/","s",".","c","s","s">>, <<>>, <<>>),
      Url("https:", "ex.com", "", <<"/","x">>, <<>>, <<>>),
      Url("https:", "ex.com", "", <<"/","s",".","c","s","s">>, <<"?","v","=","1">>, <<>>),
      Url("https:", "ex.com", "", <<"/","d","/">>, <<"?","v","=","1">>, <<>>),
      Url("https:", "ex.com", "", <<"/">>, <<>>, <<>>),
      Url("", "", "", <<"x">>, <<>>, <<>>) }

\* localPath = this.getResourcePath(resource.url), tabulated over the
\* resource URLs of the model and the values of Date.now()
localPath ==
    [r \in ResourceUniverse \cup ExampleResources \cup StyledResources \cup SheetResources
              \cup CollidingResources |->
        [now \in Clock |-> getResourcePath(r, now)]]

\* the URLs a crawl can pass to scrapePage
PageUniverse ==
    BaseUrls \cup { CleanUrl(a) : a \in LinkUniverse \cup ExampleAnchors \cup NestedAnchors
                                              \cup HtmlAnchors }

\* fullPath of the document of a page, relative to outputDir, tabulated over
\* the page URLs of the model
fullPath == [u \in PageUniverse |-> JoinOutputDir(PageFileName(u))]

\* fileName: this.urlToFilePath(url) + '.html' of generateSitemap, tabulated
\* over the page URLs of the model
fileName == [u \in PageUniverse |-> urlToFilePath(u) \o HtmlExt]

SitemapFileName(u) == IF u \in DOMAIN fileName THEN fileName[u] ELSE urlToFilePath(u) \o HtmlExt

\* fullPath of the document of page u
PageFullPath(u) == IF u \in DOMAIN fullPath THEN fullPath[u] ELSE JoinOutputDir(PageFileName(u))

\* no URL (currentUrl between pages, the url of an empty file)
NoUrl == Url("", "", "", <<>>, <<>>, <<>>)

\* ---------------------------------------------------------------- state
VARIABLES
    site,                 \* the site behind baseUrl (never changes)
    baseUrl,              \* this.baseUrl
    pc,                   \* position of scrape() / scrapePage()
    pendingUrls,          \* this.pendingUrls, a Set in insertion order
    visitedUrls,          \* this.visitedUrls
    downloadedResources,  \* this.downloadedResources
    sitemap,              \* keys of this.sitemap
    currentUrl,           \* currentUrl of scrape(), url of scrapePage()
    linksLeft,            \* anchors of pageData.links not yet iterated
    lastOffer,            \* the link of the last loop iteration and shouldScrapeUrl's answer
    css,                  \* the processCssFile call in progress and the position of the CSS pass
    resourcesLeft,        \* entries of uniqueResources not yet iterated
    seenResources,        \* keys of uniqueResources already iterated
    resourceMap,          \* resourceMap of scrapePage: entries url -> localPath in insertion order
    dl,                   \* the downloadResource call in progress
    disk,                 \* files under outputDir: path -> content
    unlinkQueue,          \* paths with an fs.unlink issued and not yet performed
    pageFailed,           \* the catch block of scrapePage ran for currentUrl
    scrapeCalls,          \* history: bag of the URLs passed to scrapePage
    dequeues,             \* history: bag of the URLs the scrape loop removed from pendingUrls
    admitted,             \* history: URLs ever added to pendingUrls
    failedPages,          \* history: URLs whose scrapePage ran its catch block
    fetched200,           \* history: URLs whose download was answered 200 and written
    failedFetches,        \* history: [url, path] of the downloadResource calls of scrapePage that returned false or rejected
    calls,                \* history: bag of the URLs of the downloadResource calls of scrapePage that settled
    transfers,            \* history: bag of the URLs an HTTP GET was issued for
    resolved              \* the calls of the path functions made on their own: [fn, url, path]

vars ==
    << site, baseUrl, pc, pendingUrls, visitedUrls, downloadedResources, sitemap,
       currentUrl, linksLeft, lastOffer, css, resourcesLeft, seenResources,
       resourceMap, dl, disk, unlinkQueue, pageFailed,
       scrapeCalls, dequeues, admitted, failedPages, fetched200, calls, failedFetches, transfers, resolved >>

\* this.baseDomain = new URL(baseUrl).hostname
baseDomain == Hostname(baseUrl)

\* no downloadResource call in progress
NoDl == [url |-> NoUrl, req |-> NoUrl, path |-> <<>>, phase |-> "idle",
         result |-> "none", requests |-> 0, redirects |-> 0]

NoOffer == [link |-> NoUrl, admitted |-> FALSE]

\* no processCssFile call in progress, none made yet for the page
NoCss == [phase |-> "idle", caller |-> "none", file |-> <<>>, url |-> NoUrl,
          left |-> <<>>, text |-> <<>>, orig |-> <<>>, subs |-> 0, pass |-> 0, begun |-> FALSE]

\* one more copy of u in a history bag
Count(bag, u) == IF CopiesIn(u, bag) >= MaxCount THEN bag ELSE bag (+) SetToBag({u})

\* Set.has / Set.add / Set.delete on an insertion-ordered Set
SetHas(q, u) == \E i \in 1..Len(q) : q[i] = u

SetAdd(q, u) == IF SetHas(q, u) THEN q ELSE Append(q, u)

SetDelete_Keeps(q, u) == q

SetDelete(q, u) == SelectSeq(q, LAMBDA x : x # u)

SetValues(q) == { q[i] : i \in 1..Len(q) }

\* the state after the constructor
Init ==
    /\ site \in Sites
    /\ baseUrl \in site.roots
    /\ pc = "start"
    /\ pendingUrls = <<>>
    /\ visitedUrls = {}
    /\ downloadedResources = {}
    /\ sitemap = {}
    /\ currentUrl = NoUrl
    /\ linksLeft = 0
    /\ lastOffer = NoOffer
    /\ css = NoCss
    /\ resourcesLeft = 0
    /\ seenResources = {}
    /\ resourceMap = << >>
    /\ dl = NoDl
    /\ disk = << >>
    /\ unlinkQueue = {}
    /\ pageFailed = FALSE
    /\ scrapeCalls = EmptyBag
    /\ dequeues = EmptyBag
    /\ admitted = {}
    /\ failedPages = {}
    /\ fetched200 = {}
    /\ calls = EmptyBag
    /\ failedFetches = {}
    /\ transfers = EmptyBag
    /\ resolved = {}

\* --------------------------------------------------------------- Frontier
skipExtensions ==
    {
      <<".","p","d","f">>, <<".","j","p","g">>, <<".","j","p","e","g">>,
      <<".","p","n","g">>, <<".","g","i","f">>, <<".","c","s","s">>,
      <<".","j","s">>, <<".","i","c","o">>, <<".","s","v","g">>,
      <<".","z","i","p">>, <<".","d","o","c">>, <<".","d","o","c","x">>,
      <<".","x","l","s">>, <<".","x","l","s","x">>, <<".","p","p","t">>,
      <<".","p","p","t","x">>, <<".","m","p","4">>, <<".","m","p","3">>,
      <<".","w","a","v">>, <<".","a","v","i">>, <<".","m","o","v">>,
      <<".","w","m","v">>, <<".","f","l","v">>, <<".","w","e","b","m">>,
      <<".","o","g","g">>
    }

SameDomain_Any(url) == TRUE

\* "Only scrape URLs from the same domain"
SameDomain(url) == Hostname(url) = baseDomain

\* "Skip already visited URLs (check both original and clean URL)"
AlreadyVisited(url) == url \in visitedUrls \/ CleanUrl(url) \in visitedUrls

\* "Skip URLs that are already pending (check both original and clean URL)"
AlreadyPending(url) == SetHas(pendingUrls, url) \/ SetHas(pendingUrls, CleanUrl(url))

SkippedFileType_CaseSensitive(url) ==
    \E ext \in skipExtensions : EndsWith(Pathname(url), ext)

\* "Skip certain file types for page scraping"
SkippedFileType(url) ==
    LET pathname == ToLowerCase(Pathname(url))
    IN  \E ext \in skipExtensions : EndsWith(pathname, ext)

\* "Skip mailto, tel, and other non-http protocols"
HttpProtocol(url) == url.protocol \in {"http:", "https:"}

\* "Skip anchors that point to the same page (just different sections)"
AnchorOnBasePage(url) ==
    Hash(url) # <<>> /\ Pathname(url) = Pathname(baseUrl) /\ Search(url) = <<>>

\* shouldScrapeUrl(url) for a parsable URL
shouldScrapeUrl(url) ==
    /\ SameDomain(url)
    /\ ~ AlreadyVisited(url)
    /\ ~ AlreadyPending(url)
    /\ ~ SkippedFileType(url)
    /\ HttpProtocol(url)
    /\ ~ AnchorOnBasePage(url)
    /\ ~ EndsWithHashSign(url)

\* ------------------------------------------------------------ file contents
EmptyFile == [kind |-> "empty", url |-> NoUrl]

BodyOf(u) == [kind |-> "body", url |-> u]

\* Map.has / Map.set on an insertion-ordered Map, a sequence of [key, value]
MapHas(m, k) == \E i \in 1..Len(m) : m[i].key = k

MapGet(m, k) == m[CHOOSE i \in 1..Len(m) : m[i].key = k].value

MapSet(m, k, v) ==
    IF MapHas(m, k)
    THEN [i \in 1..Len(m) |-> IF m[i].key = k THEN [key |-> k, value |-> v] ELSE m[i]]
    ELSE Append(m, [key |-> k, value |-> v])

\* the .href of a URL as the markup writes it: protocol, "//" and host are
\* single tokens, the rest is characters
Href(u) ==
    << u.protocol, "//", IF u.port = "" THEN u.hostname ELSE u.hostname \o ":" \o u.port >>
        \o Pathname(u) \o u.search \o u.hash

\* the characters of a token of Href
Letters(t) ==
    IF t = "https:" THEN <<"h","t","t","p","s",":">>
    ELSE IF t = "http:" THEN <<"h","t","t","p",":">>
    ELSE IF t = "//" THEN <<"/","/">>
    ELSE IF t = "ex.com" THEN <<"e","x",".","c","o","m">>
    ELSE IF t = "cdn.net" THEN <<"c","d","n",".","n","e","t">>
    ELSE <<t>>

\* a string of the markup character by character: the tokens Href puts
\* first are spelled out
Spell(s) ==
    IF Len(s) >= 3 /\ s[2] = "//"
    THEN Letters(s[1]) \o Letters(s[2]) \o Letters(s[3]) \o SubSeq(s, 4, Len(s))
    ELSE IF Len(s) >= 2 /\ s[1] = "//"
    THEN Letters(s[1]) \o Letters(s[2]) \o SubSeq(s, 3, Len(s))
    ELSE s

\* === on two strings of the markup
SameString(a, b) == Spell(a) = Spell(b)

\* urlVariations.set(k, v): a key that is in the Map keeps its place
SetVariation(m, k, v) ==
    IF \E i \in 1..Len(m) : SameString(m[i].key, k)
    THEN [i \in 1..Len(m) |-> IF SameString(m[i].key, k) THEN [key |-> m[i].key, value |-> v] ELSE m[i]]
    ELSE Append(m, [key |-> k, value |-> v])

\* new URL(s) succeeds for an absolute URL string only
IsAbsoluteUrl(s) == Len(s) >= 3 /\ s[1] \in {"http:", "https:"} /\ s[2] = "//"

\* new URL(s).pathname of an absolute URL string
PathnameOf(s) ==
    LET stops == { i \in 4..Len(s) : s[i] \in {"?", "#"} }
        end   == IF stops = {} THEN Len(s)
                 ELSE (CHOOSE i \in stops : \A j \in stops : i <= j) - 1
        p     == SubSeq(s, 4, end)
    IN  IF p = <<>> THEN <<"/">> ELSE p

\* urlVariations: for every entry of the resource mapping, in order, the full
\* URL, the URL without protocol, the pathname, and pathname + query
RECURSIVE urlVariations(_)
urlVariations(mapping) ==
    IF mapping = <<>> THEN <<>>
    ELSE LET n  == Len(mapping)
             u  == mapping[n].key
             lp == mapping[n].value
             v1 == SetVariation(urlVariations(SubSeq(mapping, 1, n - 1)), Href(u), lp)
             v2 == SetVariation(v1, Tail(Href(u)), lp)
             v3 == SetVariation(v2, Pathname(u), lp)
         IN  IF u.search # <<>> THEN SetVariation(v3, Pathname(u) \o u.search, lp) ELSE v3

RECURSIVE Repeat(_, _)
Repeat(s, n) == IF n = 0 THEN <<>> ELSE s \o Repeat(s, n - 1)

makeRelativePath_PerSegment(path, currentPagePath) ==
    LET segments == Cardinality({ i \in 1..Len(currentPagePath) : currentPagePath[i] = "/" }) + 1
    IN  Repeat(<<".",".","/">>, segments) \o path

\* makeRelativePath: one "../" for every "/" of the page's own path
makeRelativePath(path, currentPagePath) ==
    LET pageDepth == Cardinality({ i \in 1..Len(currentPagePath) : currentPagePath[i] = "/" })
    IN  IF pageDepth > 0 THEN Repeat(<<".",".","/">>, pageDepth) \o path
        ELSE path

\* the second loop of replaceUrlInAttribute: originalValue against the pathname
\* of a variation that parses as a URL
PathMatch(originalValue, urlVariation) ==
    LET pathname == PathnameOf(urlVariation)
        pathWithoutLeadingSlash == IF StartsWith(pathname, <<"/">>) THEN Tail(pathname) ELSE pathname
    IN  \/ SameString(originalValue, pathname)
        \/ SameString(originalValue, pathWithoutLeadingSlash)
        \/ EndsWith(Spell(originalValue), <<"/">> \o pathWithoutLeadingSlash)

\* replaceUrlInAttribute for a src or href attribute: the value the attribute
\* has afterwards
replaceUrlInAttribute(originalValue, variations, currentPagePath) ==
    LET exact == { i \in 1..Len(variations) : SameString(variations[i].key, originalValue) }
        byPath == { i \in 1..Len(variations) :
                      /\ IsAbsoluteUrl(variations[i].key)
                      /\ PathMatch(originalValue, variations[i].key) }
        First(S) == CHOOSE i \in S : \A j \in S : i <= j
    IN  IF exact # {} THEN makeRelativePath(variations[First(exact)].value, currentPagePath)
        ELSE IF byPath # {} THEN makeRelativePath(variations[First(byPath)].value, currentPagePath)
        ELSE originalValue

\* the resourceMap of a page that downloaded the resources of order, one
\* after the other
ResourceMapOf(order, now) ==
    [i \in 1..Len(order) |-> [key |-> order[i], value |-> getResourcePath(order[i], now)]]

\* the orders in which a page can download resources of from
DownloadOrders(from) ==
    { order \in UNION { [1..n -> from] : n \in 0..Cardinality(from) } :
          \A i, j \in 1..Len(order) : i # j => order[i] # order[j] }

\* urlVariations of the resource maps the pages of the model can have,
\* tabulated
variationsOf ==
    LET maps == UNION { { ResourceMapOf(order, now) :
                            order \in DownloadOrders(st.resources), now \in Clock } : st \in Sites }
    IN  [mapping \in maps |-> urlVariations(mapping)]

\* part.split(' ') of one candidate of a srcset: the URL, and the descriptor
\* with the space before it
CandidateUrl(part) ==
    IF \E i \in 1..Len(part) : part[i] = " "
    THEN SubSeq(part, 1, (CHOOSE i \in 1..Len(part) :
                              part[i] = " " /\ \A j \in 1..(i-1) : part[j] # " ") - 1)
    ELSE part

CandidateDescriptor(part) == SubSeq(part, Len(CandidateUrl(part)) + 1, Len(part))

\* url === urlVariation || url.endsWith(urlVariation.replace(/^\//, ''))
SrcsetMatch(url, urlVariation) ==
    LET key == Spell(urlVariation)
    IN  \/ SameString(url, urlVariation)
        \/ EndsWith(Spell(url), IF StartsWith(key, <<"/">>) THEN Tail(key) ELSE key)

\* replaceUrlInAttribute for a srcset attribute: srcsetParts is the value
\* split at its commas and trimmed; the parts are joined with ", " again
replaceUrlInSrcset(srcsetParts, variations, currentPagePath) ==
    [n \in 1..Len(srcsetParts) |->
        LET url == CandidateUrl(srcsetParts[n])
            matches == { i \in 1..Len(variations) : SrcsetMatch(url, variations[i].key) }
            newUrl == IF matches = {} THEN url
                      ELSE makeRelativePath(
                               variations[CHOOSE i \in matches : \A j \in matches : i <= j].value,
                               currentPagePath)
        IN  newUrl \o CandidateDescriptor(srcsetParts[n])]

\* document.documentElement.outerHTML after the rewrite, reduced to the page
\* and the value of each resource attribute, keyed by the URL the attribute
\* resolved to (the markup writes every reference as an absolute URL)
PageDoc(u) ==
    LET variations == IF resourceMap \in DOMAIN variationsOf THEN variationsOf[resourceMap]
                      ELSE urlVariations(resourceMap)
        currentPagePath == urlToFilePath(u)
    IN  [kind |-> "page", url |-> u,
         refs |-> [r \in seenResources |-> replaceUrlInAttribute(Href(r), variations, currentPagePath)]]

\* the href the rewrite leaves in an anchor whose href resolves to a:
\* urlToFilePath(absoluteUrl.href) with ".html" for the hostname of the crawl,
\* the attribute as it was for any other
rewriteAnchor(a) ==
    IF Hostname(a) = baseDomain THEN PageFileName(a) ELSE Href(a)

\* basicContent of the catch block of scrapePage
PlaceholderDoc(u) == [kind |-> "placeholder", url |-> u]

\* a URL string as it is written (a key of this.sitemap)
UrlString(u) == << u.protocol, "//", u.hostname >> \o u.pathname \o u.search \o u.hash

\* the order of String.localeCompare on the characters of page URLs:
\* punctuation, then digits, then letters; the three leading tokens are the
\* same in every page URL
Collation ==
    << "https:", "//", "ex.com",
       "_", "-", ":", "?", "/", ".", "#", "%", "&", "=",
       "0", "1", "2", "3", "4", "5", "6", "7", "8", "9",
       "a", "b", "c", "d", "e", "f", "g", "h", "i", "j", "k", "l", "m",
       "n", "o", "p", "q", "r", "s", "t", "u", "v", "w", "x", "y", "z" >>

Rank(c) == CHOOSE i \in 1..Len(Collation) : Collation[i] = c

\* a.localeCompare(b) < 0
ComesBefore(a, b) ==
    \E k \in 1..(Len(a) + 1) :
        /\ k <= Len(b)
        /\ \A j \in 1..(k - 1) : a[j] = b[j]
        /\ k = Len(a) + 1 \/ Rank(a[k]) < Rank(b[k])

RECURSIVE SortPages_Reversed(_)
SortPages_Reversed(urls) ==
    IF urls = {} THEN <<>>
    ELSE LET last == CHOOSE u \in urls :
                         \A v \in urls \ {u} : ComesBefore(UrlString(u), UrlString(v))
         IN  Append(SortPages_Reversed(urls \ {last}), last)

\* sitemapData.pages after sort((a, b) => a.url.localeCompare(b.url))
RECURSIVE SortPages(_)
SortPages(urls) ==
    IF urls = {} THEN <<>>
    ELSE LET first == CHOOSE u \in urls :
                          \A v \in urls \ {u} : ComesBefore(UrlString(u), UrlString(v))
         IN  <<first>> \o SortPages(urls \ {first})

\* the manifest: the URLs of sitemapData.pages in their order, and the
\* fileName of each
SitemapDoc ==
    [kind |-> "sitemap", url |-> NoUrl, pages |-> SortPages(sitemap),
     fileNames |-> [u \in sitemap |-> SitemapFileName(u)]]

WriteFile(d, path, content) == (path :> content) @@ d

RemoveFile(d, path) == [f \in (DOMAIN d) \ {path} |-> d[f]]

\* ---------------------------------------------------------- stylesheets
CssExt == <<".","c","s","s">>

\* the body the server sends for u: a stylesheet of the site carries the
\* site's url() references
SheetOf(u) == IF u \in site.styles THEN site.sheet ELSE <<>>

\* cssContent.match(/url\((...)\)/g) on the content of a file: its url()
\* occurrences in order, each with its quoting and the text between the
\* parentheses; null for a file without one
UrlMatches(content) ==
    IF content.kind = "css" THEN content.tokens
    ELSE IF content.kind = "body" THEN SheetOf(content.url)
    ELSE <<>>

\* new URL(s) of an absolute URL string
ParseUrl(s) ==
    LET hashes     == { i \in 4..Len(s) : s[i] = "#" }
        hashStart  == IF hashes = {} THEN Len(s) + 1
                      ELSE CHOOSE i \in hashes : \A j \in hashes : i <= j
        queries    == { i \in 4..(hashStart - 1) : s[i] = "?" }
        queryStart == IF queries = {} THEN hashStart
                      ELSE CHOOSE i \in queries : \A j \in queries : i <= j
    IN  Url(s[1], s[3], "", PathnameOf(s),
            SubSeq(s, queryStart, hashStart - 1), SubSeq(s, hashStart, Len(s)))

\* new URL(url, cssBaseUrl) for the text of a url() occurrence: an absolute
\* URL, a path from the root of the host, or a path relative to the
\* directory of the stylesheet (no text of a crawl has a "." or ".." segment,
\* a query or a fragment in a relative reference)
ResolveUrl(value, base) ==
    IF IsAbsoluteUrl(value) THEN ParseUrl(value)
    ELSE IF StartsWith(value, <<"/">>)
         THEN Url(base.protocol, base.hostname, base.port, value, <<>>, <<>>)
         ELSE Url(base.protocol, base.hostname, base.port,
                  SubSeq(Pathname(base), 1, LastIndexOf(Pathname(base), "/")) \o value,
                  <<>>, <<>>)

CssSameHost_Any(resourceUrl, originalCssUrl) == TRUE

\* resourceUrl.hostname === new URL(originalCssUrl).hostname
CssSameHost(resourceUrl, originalCssUrl) == Hostname(resourceUrl) = Hostname(originalCssUrl)

\* path.dirname
Dirname(path) ==
    LET i == LastIndexOf(path, "/")
    IN  IF i = 0 THEN <<".">> ELSE SubSeq(path, 1, i - 1)

\* path.relative(from, to) of two paths below outputDir
RECURSIVE RelativePath(_, _)
RelativePath(from, to) ==
    IF from = <<".">> THEN to
    ELSE IF StartsWith(to, from \o <<"/">>) THEN SubSeq(to, Len(from) + 2, Len(to))
    ELSE <<".",".","/">> \o RelativePath(Dirname(from), to)

\* String.replace(match, replacement) with a string pattern: the first
\* occurrence only
ReplaceFirst(text, match, replacement) ==
    LET hits == { i \in 1..Len(text) : text[i] = match }
    IN  IF hits = {} THEN text
        ELSE LET first == CHOOSE i \in hits : \A j \in hits : i <= j
             IN  [text EXCEPT ![first] = replacement]

\* the head of processCssFile(cssFilePath, originalCssUrl) on the files d:
\* readFile and the match, or the outer catch when the file cannot be read
processCssFile(d, cssFilePath, originalCssUrl, caller, pass) ==
    LET urlMatches == IF cssFilePath \in DOMAIN d THEN UrlMatches(d[cssFilePath]) ELSE <<>>
    IN  [phase |-> "run", caller |-> caller, file |-> cssFilePath, url |-> originalCssUrl,
         left |-> urlMatches, text |-> urlMatches, orig |-> urlMatches,
         subs |-> 0, pass |-> pass, begun |-> TRUE]

\* this.getResourcePath(absoluteUrl) at the time now
ResourcePathAt(u, now) ==
    IF u \in DOMAIN localPath THEN localPath[u][now] ELSE getResourcePath(u, now)

\* ------------------------------------------------------------- scrape()
\* variables no step of the crawl loop itself changes
FetchUnchanged == UNCHANGED << downloadedResources, dl, unlinkQueue, fetched200, calls, failedFetches, transfers >>

PageUnchanged == UNCHANGED << linksLeft, lastOffer, css, resourcesLeft, seenResources, resourceMap, pageFailed >>

HistoryUnchanged == UNCHANGED << scrapeCalls, dequeues, admitted, failedPages >>

LoopCondition_OffByOne == Len(pendingUrls) > 1

\* the condition of "while (this.pendingUrls.size > 0)"
LoopCondition == Len(pendingUrls) > 0

\* initialize() succeeds; pendingUrls.add(baseUrl)
InitializeOk ==
    /\ pc = "start"
    /\ pendingUrls' = SetAdd(pendingUrls, baseUrl)
    /\ admitted' = admitted \cup {baseUrl}
    /\ pc' = "loop"
    /\ UNCHANGED << site, resolved, baseUrl, visitedUrls, sitemap, currentUrl, disk, scrapeCalls, dequeues, failedPages >>
    /\ FetchUnchanged /\ PageUnchanged

\* initialize() throws: the catch of scrape() logs, nothing else runs
InitializeFail ==
    /\ pc = "start"
    /\ pc' = "done"
    /\ UNCHANGED << site, resolved, baseUrl, pendingUrls, visitedUrls, sitemap, currentUrl, disk >>
    /\ FetchUnchanged /\ PageUnchanged /\ HistoryUnchanged

\* one iteration head of the while loop whose URL is already visited: continue
DequeueSkip ==
    /\ pc = "loop"
    /\ LoopCondition
    /\ LET url == Head(pendingUrls)
       IN  /\ url \in visitedUrls
           /\ pendingUrls' = SetDelete(pendingUrls, url)
           /\ dequeues' = Count(dequeues, url)
    /\ UNCHANGED << site, resolved, baseUrl, pc, visitedUrls, sitemap, currentUrl, disk, scrapeCalls, admitted, failedPages >>
    /\ FetchUnchanged /\ PageUnchanged

\* one iteration head of the while loop that calls scrapePage(currentUrl)
DequeueScrape ==
    /\ pc = "loop"
    /\ LoopCondition
    /\ LET url == Head(pendingUrls)
       IN  /\ url \notin visitedUrls
           /\ pendingUrls' = SetDelete(pendingUrls, url)
           /\ dequeues' = Count(dequeues, url)
           /\ scrapeCalls' = Count(scrapeCalls, url)
           /\ currentUrl' = url
    /\ pc' = "goto"
    /\ UNCHANGED << site, resolved, baseUrl, visitedUrls, sitemap, disk, admitted, failedPages >>
    /\ FetchUnchanged /\ PageUnchanged

\* this.visitedUrls.add(currentUrl) after scrapePage returned; the locals of
\* scrapePage are gone
MarkVisited ==
    /\ pc = "mark"
    /\ visitedUrls' = visitedUrls \cup {currentUrl}
    /\ pc' = "loop"
    /\ seenResources' = {}
    /\ resourceMap' = << >>
    /\ pageFailed' = FALSE
    /\ css' = NoCss
    /\ UNCHANGED << site, resolved, baseUrl, pendingUrls, sitemap, currentUrl, disk,
                    linksLeft, lastOffer, resourcesLeft >>
    /\ FetchUnchanged /\ HistoryUnchanged

\* the while condition fails: pendingUrls.size = 0
LoopExit ==
    /\ pc = "loop"
    /\ ~ LoopCondition
    /\ pc' = "sitemap"
    /\ UNCHANGED << site, resolved, baseUrl, pendingUrls, visitedUrls, sitemap, currentUrl, disk >>
    /\ FetchUnchanged /\ PageUnchanged /\ HistoryUnchanged

SitemapJson == <<"s","i","t","e","m","a","p",".","j","s","o","n">>

SitemapHtml == <<"s","i","t","e","m","a","p",".","h","t","m","l">>

\* generateSitemap(): two writeFile calls, the first failure ends scrape()
GenerateSitemap ==
    /\ pc = "sitemap"
    /\ \E written \in {0, 1, 2} :
          disk' = IF written = 0 THEN disk
                  ELSE IF written = 1 THEN WriteFile(disk, SitemapJson, SitemapDoc)
                  ELSE WriteFile(WriteFile(disk, SitemapJson, SitemapDoc), SitemapHtml, SitemapDoc)
    /\ pc' = "done"
    /\ UNCHANGED << site, resolved, baseUrl, pendingUrls, visitedUrls, sitemap, currentUrl >>
    /\ FetchUnchanged /\ PageUnchanged /\ HistoryUnchanged

\* ----------------------------------------------------------- scrapePage()
CatchBlock_Rethrows ==
    /\ pageFailed' = TRUE
    /\ failedPages' = failedPages \cup {currentUrl}
    /\ disk' = disk
    /\ pc' = "done"

\* the catch block of scrapePage: the placeholder is written, or its write
\* fails and the inner catch logs it; scrapePage returns normally either way
CatchBlock ==
    /\ pageFailed' = TRUE
    /\ failedPages' = failedPages \cup {currentUrl}
    /\ \E writeOk \in BOOLEAN :
          disk' = IF writeOk
                  THEN WriteFile(disk, PageFullPath(currentUrl), PlaceholderDoc(currentUrl))
                  ELSE disk
    /\ pc' = "mark"

\* page.goto and the first page.evaluate succeed: pageData.links is known
GotoOk ==
    /\ pc = "goto"
    /\ linksLeft' \in 0..MaxLinks
    /\ (site.anchors = {} => linksLeft' = 0)
    /\ pc' = "links"
    /\ UNCHANGED << site, resolved, baseUrl, pendingUrls, visitedUrls, sitemap, currentUrl, disk,
                    lastOffer, css, resourcesLeft, seenResources, resourceMap, pageFailed >>
    /\ FetchUnchanged /\ HistoryUnchanged

\* page.goto or the first page.evaluate throws or times out
GotoFail ==
    /\ pc = "goto"
    /\ site.flaky
    /\ CatchBlock
    /\ UNCHANGED << site, resolved, baseUrl, pendingUrls, visitedUrls, sitemap, currentUrl,
                    linksLeft, lastOffer, css, resourcesLeft, seenResources, resourceMap,
                    scrapeCalls, dequeues, admitted >>
    /\ FetchUnchanged

\* one iteration of "for (const link of pageData.links)"
OfferLink ==
    /\ pc = "links"
    /\ linksLeft > 0
    /\ \E link \in site.anchors :
          LET ok == shouldScrapeUrl(link)
          IN  /\ pendingUrls' = IF ok THEN SetAdd(pendingUrls, CleanUrl(link)) ELSE pendingUrls
              /\ admitted' = IF ok THEN admitted \cup {CleanUrl(link)} ELSE admitted
              /\ lastOffer' = [link |-> link, admitted |-> ok]
    /\ linksLeft' = linksLeft - 1
    /\ UNCHANGED << site, resolved, baseUrl, pc, visitedUrls, sitemap, currentUrl, disk,
                    css, resourcesLeft, seenResources, resourceMap, pageFailed,
                    scrapeCalls, dequeues, failedPages >>
    /\ FetchUnchanged

\* the loop over pageData.links is over
LinksDone ==
    /\ pc = "links"
    /\ linksLeft = 0
    /\ pc' = "extract"
    /\ lastOffer' = NoOffer
    /\ UNCHANGED << site, resolved, baseUrl, pendingUrls, visitedUrls, sitemap, currentUrl, disk,
                    linksLeft, css, resourcesLeft, seenResources, resourceMap, pageFailed >>
    /\ FetchUnchanged /\ HistoryUnchanged

\* the second page.evaluate succeeds: the unique resource URLs are known
ExtractOk ==
    /\ pc = "extract"
    /\ \E n \in 0..MaxResources :
          /\ n <= Cardinality(site.resources)
          /\ resourcesLeft' = n
    /\ pc' = "resources"
    /\ UNCHANGED << site, resolved, baseUrl, pendingUrls, visitedUrls, sitemap, currentUrl, disk,
                    linksLeft, lastOffer, css, seenResources, resourceMap, pageFailed >>
    /\ FetchUnchanged /\ HistoryUnchanged

\* the second page.evaluate throws
ExtractFail ==
    /\ pc = "extract"
    /\ site.flaky
    /\ CatchBlock
    /\ UNCHANGED << site, resolved, baseUrl, pendingUrls, visitedUrls, sitemap, currentUrl,
                    linksLeft, lastOffer, css, resourcesLeft, seenResources, resourceMap,
                    scrapeCalls, dequeues, admitted >>
    /\ FetchUnchanged

\* the order of uniqueResources: the link[rel="stylesheet"] elements are
\* collected first, so a stylesheet can be next only if no other kind of
\* resource came before, and another kind only if no stylesheet is to follow
StylesFirst(r) ==
    IF r \in site.styles
    THEN seenResources \subseteq site.styles
    ELSE resourcesLeft - 1 <=
             Cardinality((site.resources \ (seenResources \cup {r})) \ site.styles)

\* one iteration of "for (const [resourceUrl, resource] of uniqueResources)"
\* for a resource of another host: skipped
ResourceSkip ==
    /\ pc = "resources"
    /\ resourcesLeft > 0
    /\ \E r \in site.resources \ seenResources :
          /\ StylesFirst(r)
          /\ Hostname(r) # Hostname(currentUrl)
          /\ seenResources' = seenResources \cup {r}
    /\ resourcesLeft' = resourcesLeft - 1
    /\ UNCHANGED << site, resolved, baseUrl, pc, pendingUrls, visitedUrls, sitemap, currentUrl, disk,
                    linksLeft, lastOffer, css, resourceMap, pageFailed >>
    /\ FetchUnchanged /\ HistoryUnchanged

\* one iteration for a same-host resource: downloadResource(resource.url, fullPath) is called
ResourceDownload ==
    /\ pc = "resources"
    /\ resourcesLeft > 0
    /\ \E r \in site.resources \ seenResources :
          /\ StylesFirst(r)
          /\ Hostname(r) = Hostname(currentUrl)
          /\ seenResources' = seenResources \cup {r}
          /\ \E now \in Clock :
                dl' = [url |-> r, req |-> r, path |-> localPath[r][now],
                       phase |-> "entry", result |-> "none", requests |-> 0, redirects |-> 0]
    /\ resourcesLeft' = resourcesLeft - 1
    /\ pc' = "download"
    /\ UNCHANGED << site, resolved, baseUrl, pendingUrls, visitedUrls, sitemap, currentUrl, disk,
                    linksLeft, lastOffer, css, resourceMap, pageFailed,
                    downloadedResources, unlinkQueue, fetched200, calls, failedFetches, transfers >>
    /\ HistoryUnchanged

\* the loop over uniqueResources is over: sitemap.set(url, ...), then the
\* loop over resourceMap that processes the stylesheets
ResourcesDone ==
    /\ pc = "resources"
    /\ resourcesLeft = 0
    /\ sitemap' = sitemap \cup {currentUrl}
    /\ pc' = "csspass"
    /\ dl' = NoDl
    /\ UNCHANGED << site, resolved, baseUrl, pendingUrls, visitedUrls, currentUrl, disk,
                    downloadedResources, unlinkQueue, fetched200, calls, failedFetches, transfers >>
    /\ PageUnchanged /\ HistoryUnchanged

\* the entries of resourceMap after position pass whose localPath ends in ".css"
CssEntriesAfter(pass) ==
    { i \in (pass + 1)..Len(resourceMap) : EndsWith(resourceMap[i].value, CssExt) }

\* "for (const [resourceUrl, localPath] of resourceMap)" comes to the next
\* entry whose localPath ends in ".css": processCssFile(fullPath, resourceUrl)
CssPassNext ==
    /\ pc = "csspass"
    /\ CssEntriesAfter(css.pass) # {}
    /\ LET next == CHOOSE i \in CssEntriesAfter(css.pass) : \A j \in CssEntriesAfter(css.pass) : i <= j
       IN  css' = processCssFile(disk, resourceMap[next].value, resourceMap[next].key, "pass", next)
    /\ pc' = "css"
    /\ UNCHANGED << site, resolved, baseUrl, pendingUrls, visitedUrls, sitemap, currentUrl, disk,
                    linksLeft, lastOffer, resourcesLeft, seenResources, resourceMap, pageFailed >>
    /\ FetchUnchanged /\ HistoryUnchanged

\* the loop over resourceMap is over
CssPassDone ==
    /\ pc = "csspass"
    /\ CssEntriesAfter(css.pass) = {}
    /\ pc' = "save"
    /\ UNCHANGED << site, resolved, baseUrl, pendingUrls, visitedUrls, sitemap, currentUrl, disk >>
    /\ FetchUnchanged /\ PageUnchanged /\ HistoryUnchanged

\* the rewrite in the page and writeFile succeed
SaveOk ==
    /\ pc = "save"
    /\ disk' = WriteFile(disk, PageFullPath(currentUrl), PageDoc(currentUrl))
    /\ pc' = "mark"
    /\ UNCHANGED << site, resolved, baseUrl, pendingUrls, visitedUrls, sitemap, currentUrl >>
    /\ FetchUnchanged /\ PageUnchanged /\ HistoryUnchanged

\* the third page.evaluate, ensureDir or writeFile throws
SaveFail ==
    /\ pc = "save"
    /\ site.flaky
    /\ CatchBlock
    /\ UNCHANGED << site, resolved, baseUrl, pendingUrls, visitedUrls, sitemap, currentUrl,
                    linksLeft, lastOffer, css, resourcesLeft, seenResources, resourceMap,
                    scrapeCalls, dequeues, admitted >>
    /\ FetchUnchanged

\* ------------------------------------------------------ processCssFile()
\* the URL the url() occurrence at the head of the loop resolves to
CssHead == ResolveUrl(Head(css.left).value, css.url)

\* one iteration of "for (const match of urlMatches)" for a reference to
\* another host, or one that does not parse: nothing is done
CssSkip ==
    /\ pc = "css"
    /\ css.left # <<>>
    /\ ~ (Parses(CssHead) /\ CssSameHost(CssHead, css.url))
    /\ css' = [css EXCEPT !.left = Tail(@)]
    /\ UNCHANGED << site, resolved, baseUrl, pc, pendingUrls, visitedUrls, sitemap, currentUrl, disk,
                    linksLeft, lastOffer, resourcesLeft, seenResources, resourceMap, pageFailed >>
    /\ FetchUnchanged /\ HistoryUnchanged

\* one iteration for a reference to the stylesheet's host:
\* downloadResource(absoluteUrl, fullPath) is called
CssDownload ==
    /\ pc = "css"
    /\ css.left # <<>>
    /\ Parses(CssHead)
    /\ CssSameHost(CssHead, css.url)
    /\ \E now \in Clock :
          dl' = [url |-> CssHead, req |-> CssHead, path |-> ResourcePathAt(CssHead, now),
                 phase |-> "entry", result |-> "none", requests |-> 0, redirects |-> 0]
    /\ pc' = "download"
    /\ UNCHANGED << site, resolved, baseUrl, pendingUrls, visitedUrls, sitemap, currentUrl, disk,
                    downloadedResources, unlinkQueue, fetched200, calls, failedFetches, transfers >>
    /\ PageUnchanged /\ HistoryUnchanged

\* the loop over urlMatches is over: writeFile if modifiedCss !== cssContent,
\* and processCssFile returns to the loop it was called from
CssDone ==
    /\ pc = "css"
    /\ css.left = <<>>
    /\ disk' = IF css.text # css.orig
               THEN WriteFile(disk, css.file, [kind |-> "css", url |-> css.url, tokens |-> css.text])
               ELSE disk
    /\ pc' = IF css.caller = "loop" THEN "resources" ELSE "csspass"
    /\ css' = [NoCss EXCEPT !.begun = TRUE, !.pass = css.pass]
    /\ UNCHANGED << site, resolved, baseUrl, pendingUrls, visitedUrls, sitemap, currentUrl,
                    linksLeft, lastOffer, resourcesLeft, seenResources, resourceMap, pageFailed >>
    /\ FetchUnchanged /\ HistoryUnchanged

\* -------------------------------------------------------- downloadResource()
\* which early return of downloadResource applies to (url, outputPath)
Shortcut(url, outputPath) ==
    IF url \in downloadedResources THEN "downloaded"
    ELSE IF outputPath \in DOMAIN disk THEN "exists"
    ELSE "none"

\* the text that replaces a url() occurrence after a successful download
CssReplacement == [quoted |-> TRUE, value |-> RelativePath(Dirname(css.file), dl.path)]

\* the download was called by processCssFile: on success
\* modifiedCss.replace(match, url('relativePath')), then the next match
ReturnToCss(r) ==
    /\ resourceMap' = resourceMap
    /\ css' = [css EXCEPT !.left = Tail(@),
                          !.subs = IF r = "true" THEN @ + 1 ELSE @,
                          !.text = IF r = "true"
                                   THEN ReplaceFirst(@, Head(css.left), CssReplacement)
                                   ELSE @]
    /\ pc' = "css"

\* the download was called by the resource loop of scrapePage: on success
\* resourceMap.set(resource.url, localPath) and, for a stylesheet whose
\* localPath ends in ".css", processCssFile(fullPath, resource.url)
ReturnToLoop_AbortsPage(r) ==
    /\ resourceMap' = IF r = "true" THEN MapSet(resourceMap, dl.url, dl.path) ELSE resourceMap
    /\ IF r = "true" /\ dl.url \in site.styles /\ EndsWith(dl.path, CssExt)
       THEN /\ css' = processCssFile(disk', dl.path, dl.url, "loop", 0)
            /\ pc' = "css"
       ELSE /\ css' = css
            /\ pc' = IF r = "true" THEN "resources" ELSE "mark"

ReturnToLoop(r) ==
    /\ resourceMap' = IF r = "true" THEN MapSet(resourceMap, dl.url, dl.path) ELSE resourceMap
    /\ IF r = "true" /\ dl.url \in site.styles /\ EndsWith(dl.path, CssExt)
       THEN /\ css' = processCssFile(disk', dl.path, dl.url, "loop", 0)
            /\ pc' = "css"
       ELSE /\ css' = css
            /\ pc' = "resources"

\* downloadResource settles with result r: control is back in the loop that called it
Return(r) ==
    /\ dl' = [dl EXCEPT !.phase = "returned", !.result = r]
    /\ calls' = Count(calls, dl.url)
    /\ failedFetches' = IF r = "true" THEN failedFetches
                        ELSE failedFetches \cup {[url |-> dl.url, path |-> dl.path]}
    /\ IF css.phase = "run" THEN ReturnToCss(r) ELSE ReturnToLoop(r)

DownloadShortcut_Truncates ==
    /\ pc = "download"
    /\ dl.phase = "entry"
    /\ Shortcut(dl.req, dl.path) # "none"
    /\ downloadedResources' = downloadedResources \cup {dl.req}
    /\ disk' = WriteFile(disk, dl.path, EmptyFile)
    /\ Return("true")
    /\ UNCHANGED << site, resolved, baseUrl, pendingUrls, visitedUrls, sitemap, currentUrl,
                    linksLeft, lastOffer, resourcesLeft, seenResources, pageFailed,
                    unlinkQueue, fetched200, transfers >>
    /\ HistoryUnchanged

\* the head of downloadResource returns true without a request
DownloadShortcut ==
    /\ pc = "download"
    /\ dl.phase = "entry"
    /\ Shortcut(dl.req, dl.path) # "none"
    /\ downloadedResources' = IF Shortcut(dl.req, dl.path) = "exists"
                              THEN downloadedResources \cup {dl.req}
                              ELSE downloadedResources
    /\ UNCHANGED << site, resolved, baseUrl, pendingUrls, visitedUrls, sitemap, currentUrl, disk,
                    linksLeft, lastOffer, resourcesLeft, seenResources, pageFailed,
                    unlinkQueue, fetched200 >>
    /\ Return("true")
    /\ UNCHANGED transfers
    /\ HistoryUnchanged

\* no early return: createWriteStream(outputPath) creates the file, the GET
\* is issued (the count of the requests of a call stops at MaxRedirects + 1)
DownloadRequest ==
    /\ pc = "download"
    /\ dl.phase = "entry"
    /\ Shortcut(dl.req, dl.path) = "none"
    /\ disk' = WriteFile(disk, dl.path, EmptyFile)
    /\ dl' = [dl EXCEPT !.phase = "request",
                         !.requests = IF @ > MaxRedirects THEN @ ELSE @ + 1]
    /\ transfers' = Count(transfers, dl.req)
    /\ UNCHANGED << site, resolved, baseUrl, pc, pendingUrls, visitedUrls, sitemap, currentUrl,
                    downloadedResources, unlinkQueue, fetched200, calls, failedFetches >>
    /\ PageUnchanged /\ HistoryUnchanged

\* status 200 and the body is piped to the file: 'finish'
Respond200 ==
    /\ pc = "download"
    /\ dl.phase = "request"
    /\ "200" \in site.answers
    /\ disk' = WriteFile(disk, dl.path, BodyOf(dl.req))
    /\ downloadedResources' = downloadedResources \cup {dl.req}
    /\ fetched200' = fetched200 \cup {dl.req}
    /\ Return("true")
    /\ UNCHANGED << site, resolved, baseUrl, pendingUrls, visitedUrls, sitemap, currentUrl,
                    linksLeft, lastOffer, resourcesLeft, seenResources, pageFailed,
                    unlinkQueue >>
    /\ UNCHANGED transfers
    /\ HistoryUnchanged

\* status 301/302 with a Location header: unlink is issued and not awaited,
\* downloadResource(absoluteRedirectUrl, outputPath) is called
RespondRedirect ==
    /\ pc = "download"
    /\ dl.phase = "request"
    /\ "redirect" \in site.answers
    /\ dl.redirects < MaxRedirects
    /\ \E target \in RedirectTargets :
          dl' = [dl EXCEPT !.req = target, !.phase = "entry", !.redirects = @ + 1]
    /\ unlinkQueue' = unlinkQueue \cup {dl.path}
    /\ UNCHANGED << site, resolved, baseUrl, pc, pendingUrls, visitedUrls, sitemap, currentUrl, disk,
                    downloadedResources, fetched200, calls, failedFetches, transfers >>
    /\ PageUnchanged /\ HistoryUnchanged

\* status 301/302 with a Location header that names the URL the call began
\* with: unlink is issued and not awaited, downloadResource is called for
\* that URL again; no count of the redirects is kept by the code
RespondRedirectBack ==
    /\ pc = "download"
    /\ dl.phase = "request"
    /\ "redirect" \in site.answers
    /\ dl' = [dl EXCEPT !.req = dl.url, !.phase = "entry"]
    /\ unlinkQueue' = unlinkQueue \cup {dl.path}
    /\ UNCHANGED << site, resolved, baseUrl, pc, pendingUrls, visitedUrls, sitemap, currentUrl, disk,
                    downloadedResources, fetched200, calls, failedFetches, transfers >>
    /\ PageUnchanged /\ HistoryUnchanged

\* status 301/302 with a Location header that new URL(redirectUrl, url)
\* cannot parse: the TypeError is thrown inside the response callback of
\* protocol.get, outside every try block and after the promise executor has
\* returned, so it is an uncaught exception and the process ends
RespondRedirectMalformed ==
    /\ pc = "download"
    /\ dl.phase = "request"
    /\ "redirect" \in site.answers
    /\ pc' = "crashed"
    /\ UNCHANGED << site, resolved, baseUrl, pendingUrls, visitedUrls, sitemap, currentUrl, disk >>
    /\ FetchUnchanged /\ PageUnchanged /\ HistoryUnchanged

\* status 301/302 without a Location header: reject, the file is not unlinked
RespondRedirectNoLocation ==
    /\ pc = "download"
    /\ dl.phase = "request"
    /\ "nolocation" \in site.answers
    /\ Return("rejected")
    /\ UNCHANGED << site, resolved, baseUrl, pendingUrls, visitedUrls, sitemap, currentUrl, disk,
                    linksLeft, lastOffer, resourcesLeft, seenResources, pageFailed,
                    downloadedResources, unlinkQueue, fetched200 >>
    /\ UNCHANGED transfers
    /\ HistoryUnchanged

\* any other status: unlink is issued, resolve(false)
RespondOther ==
    /\ pc = "download"
    /\ dl.phase = "request"
    /\ "other" \in site.answers
    /\ unlinkQueue' = unlinkQueue \cup {dl.path}
    /\ Return("false")
    /\ UNCHANGED << site, resolved, baseUrl, pendingUrls, visitedUrls, sitemap, currentUrl, disk,
                    linksLeft, lastOffer, resourcesLeft, seenResources, pageFailed,
                    downloadedResources, fetched200 >>
    /\ UNCHANGED transfers
    /\ HistoryUnchanged

\* a stream, file or request 'error', or the 30 s timeout: unlink is issued, reject
RespondError ==
    /\ pc = "download"
    /\ dl.phase = "request"
    /\ "error" \in site.answers
    /\ unlinkQueue' = unlinkQueue \cup {dl.path}
    /\ Return("rejected")
    /\ UNCHANGED << site, resolved, baseUrl, pendingUrls, visitedUrls, sitemap, currentUrl, disk,
                    linksLeft, lastOffer, resourcesLeft, seenResources, pageFailed,
                    downloadedResources, fetched200 >>
    /\ UNCHANGED transfers
    /\ HistoryUnchanged

\* an fs.unlink issued earlier is performed by the file system
UnlinkDone ==
    /\ pc # "crashed"
    /\ \E path \in unlinkQueue :
          /\ disk' = RemoveFile(disk, path)
          /\ unlinkQueue' = unlinkQueue \ {path}
    /\ UNCHANGED << site, resolved, baseUrl, pc, pendingUrls, visitedUrls, sitemap, currentUrl,
                    downloadedResources, dl, fetched200, calls, failedFetches, transfers >>
    /\ PageUnchanged /\ HistoryUnchanged

\* --------------------------------------------------------- specification
Next ==
    \/ InitializeOk
    \/ InitializeFail
    \/ DequeueSkip
    \/ DequeueScrape
    \/ GotoOk
    \/ GotoFail
    \/ OfferLink
    \/ LinksDone
    \/ ExtractOk
    \/ ExtractFail
    \/ ResourceSkip
    \/ ResourceDownload
    \/ ResourcesDone
    \/ DownloadShortcut
    \/ DownloadRequest
    \/ Respond200
    \/ RespondRedirect
    \/ RespondRedirectNoLocation
    \/ RespondOther
    \/ RespondError
    \/ UnlinkDone
    \/ CssPassNext
    \/ CssPassDone
    \/ CssSkip
    \/ CssDownload
    \/ CssDone
    \/ SaveOk
    \/ SaveFail
    \/ MarkVisited
    \/ LoopExit
    \/ GenerateSitemap

Spec == Init /\ [][Next]_vars

\* Spec takes every Location header of a redirect to parse; CrashSpec adds
\* the answer whose Location header does not
CrashNext ==
    \/ Next
    \/ RespondRedirectMalformed

CrashSpec == Init /\ [][CrashNext]_vars

\* every step of the run is eventually taken: the event loop runs each
\* continuation that is ready
FairSpec == Spec /\ WF_vars(Next)

\* Spec ends every chain of redirects after MaxRedirects answers; CycleSpec
\* adds the server whose redirects lead back to where the call began
CycleNext ==
    \/ Next
    \/ RespondRedirectBack

CycleSpec == Init /\ [][CycleNext]_vars /\ WF_vars(CycleNext)

\* ------------------------------------------------------- path functions
\* the variables of the crawl
crawlVars ==
    << site, baseUrl, pc, pendingUrls, visitedUrls, downloadedResources, sitemap,
       currentUrl, linksLeft, lastOffer, css, resourcesLeft, seenResources,
       resourceMap, dl, disk, unlinkQueue, pageFailed,
       scrapeCalls, dequeues, admitted, failedPages, fetched200, calls, failedFetches, transfers >>

\* one call of getResourcePath(url) at some time
CallGetResourcePath ==
    /\ Cardinality(resolved) < MaxCalls
    /\ \E u \in PathInputs, now \in Clock :
          resolved' = resolved \cup
              {[fn |-> "getResourcePath", url |-> u, path |-> getResourcePath(u, now)]}
    /\ UNCHANGED crawlVars

\* one call of urlToFilePath(url)
CallUrlToFilePath ==
    /\ Cardinality(resolved) < MaxCalls
    /\ \E u \in PathInputs :
          resolved' = resolved \cup
              {[fn |-> "urlToFilePath", url |-> u, path |-> urlToFilePath(u)]}
    /\ UNCHANGED crawlVars

ResolverNext ==
    \/ CallGetResourcePath
    \/ CallUrlToFilePath

\* the path functions called on their own, any sequence of calls
ResolverSpec == Init /\ [][ResolverNext]_vars

\* resources of one page whose URLs share variation forms: a stylesheet, and
\* a file whose path spells the protocol-relative form of the stylesheet
StylesheetVariants ==
    { Url("https:", "ex.com", "", <<"/","s",".","c","s","s">>, <<>>, <<>>),
      Url("https:", "ex.com", "", <<"/","/","e","x",".","c","o","m","/","s",".","c","s","s">>, <<>>, <<>>) }

\* two images of one page with the same file name
ImageVariants ==
    { Url("https:", "ex.com", "", <<"/","i",".","p","n","g">>, <<>>, <<>>),
      Url("https:", "ex.com", "", <<"/","a","/","i",".","p","n","g">>, <<>>, <<>>) }

\* an image of another host
ForeignImage == Url("https:", "cdn.net", "", <<"/","i",".","p","n","g">>, <<>>, <<>>)

\* the values a src or href attribute of the page can have
AttributeValues ==
    { Href(Url("https:", "ex.com", "", <<"/","s",".","c","s","s">>, <<>>, <<>>)),
      <<"//", "ex.com", "/","s",".","c","s","s">>,
      <<"/","s",".","c","s","s">>,
      <<"s",".","c","s","s">> }

\* the values a srcset attribute of the page can have, split at the commas:
\* an image of the page and one of another host, and the two images of the
\* page
SrcsetValues ==
    { << Href(Url("https:", "ex.com", "", <<"/","i",".","p","n","g">>, <<>>, <<>>)) \o <<" ","1","x">>,
         Href(ForeignImage) \o <<" ","2","x">> >>,
      << Href(Url("https:", "ex.com", "", <<"/","a","/","i",".","p","n","g">>, <<>>, <<>>)) \o <<" ","1","x">>,
         Href(Url("https:", "ex.com", "", <<"/","i",".","p","n","g">>, <<>>, <<>>)) \o <<" ","2","x">> >> }

\* the values of currentPagePath
PagePaths ==
    { urlToFilePath(Url("https:", "ex.com", "", <<"/">>, <<>>, <<>>)),
      urlToFilePath(Url("https:", "ex.com", "", <<"/","d","/","a">>, <<>>, <<>>)) }

\* the rewrite of one src or href attribute of a page
CallReplaceUrlInAttribute ==
    /\ Cardinality(resolved) < MaxCalls
    /\ \E order \in DownloadOrders(StylesheetVariants) \ {<<>>}, now \in Clock,
          originalValue \in AttributeValues, currentPagePath \in PagePaths :
          LET mapping == ResourceMapOf(order, now)
          IN  resolved' = resolved \cup
                  {[fn |-> "replaceUrlInAttribute", mapping |-> mapping,
                    page |-> currentPagePath, value |-> originalValue,
                    result |-> replaceUrlInAttribute(originalValue, urlVariations(mapping),
                                                     currentPagePath)]}
    /\ UNCHANGED crawlVars

\* the rewrite of one srcset attribute of a page
CallReplaceUrlInSrcset ==
    /\ Cardinality(resolved) < MaxCalls
    /\ \E order \in DownloadOrders(ImageVariants) \ {<<>>}, now \in Clock,
          srcsetParts \in SrcsetValues, currentPagePath \in PagePaths :
          LET mapping == ResourceMapOf(order, now)
          IN  resolved' = resolved \cup
                  {[fn |-> "replaceUrlInSrcset", mapping |-> mapping,
                    page |-> currentPagePath, value |-> srcsetParts,
                    result |-> replaceUrlInSrcset(srcsetParts, urlVariations(mapping),
                                                  currentPagePath)]}
    /\ UNCHANGED crawlVars

RewriteNext ==
    \/ CallReplaceUrlInAttribute
    \/ CallReplaceUrlInSrcset

\* the attribute rewrite of the page on its own, any sequence of calls
RewriteSpec == Init /\ [][RewriteNext]_vars

\* ----------------------------------------------------------------- claims
\* the while loop of scrape() has ended
LoopEnded == pc \in {"sitemap", "done"}

\* the step is one iteration of the loop over pageData.links
OfferStep == pc = "links" /\ linksLeft' = linksLeft - 1

\* the step is the return of a downloadResource call to scrapePage
ReturnStep == pc = "download" /\ dl'.phase = "returned"

\* the step is the return of a downloadResource call to the resource loop of
\* scrapePage, which keeps the Resource Map
LoopReturnStep == ReturnStep /\ css.phase # "run"

\* C1 (as claimed): no URL is at the same time in pendingUrls and in visitedUrls.
C1_PendingVisitedDisjoint == SetValues(pendingUrls) \cap visitedUrls = {}

C4_DequeuedAtMostOnce ==
    /\ \A u \in BagToSet(dequeues) : CopiesIn(u, dequeues) <= 1
    /\ LoopEnded => Len(pendingUrls) = 0

\* C5 (as claimed): scrapePage is called at most once per page, two URLs being
\* the same page when protocol, host, path and query match.
C5_NoPageScrapedTwice ==
    \A u, v \in BagToSet(scrapeCalls) :
        /\ CopiesIn(u, scrapeCalls) <= 1
        /\ PageKey(u) = PageKey(v) => u = v

\* C6 (as claimed): after the catch block of scrapePage ran, the placeholder
\* document is on disk at the page's local path.
C6_PlaceholderWritten ==
    (pc = "mark" /\ pageFailed) =>
        /\ PageFullPath(currentUrl) \in DOMAIN disk
        /\ disk[PageFullPath(currentUrl)] = PlaceholderDoc(currentUrl)

\* C6 (amended): a failing render is not propagated: scrapePage returns to the
\* loop, having written the placeholder at the page's local path unless that
\* write failed too; the URL is then added to visitedUrls and, when the loop
\* has ended, every failed page and every admitted URL is in visitedUrls.
C6_FailureIsContained ==
    /\ [][failedPages' # failedPages =>
             /\ pc' = "mark"
             /\ failedPages' = failedPages \cup {currentUrl}
             /\ currentUrl' = currentUrl
             /\ \/ disk' = WriteFile(disk, PageFullPath(currentUrl), PlaceholderDoc(currentUrl))
                \/ disk' = disk]_vars
    /\ [][(pc = "mark" /\ pc' # "mark") =>
             /\ pc' = "loop"
             /\ visitedUrls' = visitedUrls \cup {currentUrl}]_vars
    /\ [](LoopEnded => /\ failedPages \subseteq visitedUrls
                       /\ admitted \subseteq visitedUrls
                       /\ Len(pendingUrls) = 0)

C6_Witness ==
    /\ pc = "done"
    /\ \E u \in failedPages :
          /\ PageFullPath(u) \in DOMAIN disk
          /\ disk[PageFullPath(u)] = PlaceholderDoc(u)
          /\ \E v \in visitedUrls : v \notin failedPages /\ CopiesIn(v, scrapeCalls) = 1

\* the five conditions of the claim, for a link and the sets as they are when
\* the link is offered
FiveConditions(link) ==
    /\ Hostname(link) = Hostname(baseUrl)
    /\ CleanUrl(link) \notin visitedUrls \cup SetValues(pendingUrls)
    /\ link.protocol \in {"http:", "https:"}
    /\ ~ \E ext \in skipExtensions : EndsWith(ToLowerCase(Pathname(link)), ext)
    /\ ~ (Hash(link) # <<>> /\ Pathname(link) = Pathname(baseUrl) /\ Search(link) = <<>>)

\* C7 (as claimed): a link is admitted if and only if the five conditions hold.
C7_AdmittedIffFive ==
    [][OfferStep => (lastOffer'.admitted <=> FiveConditions(lastOffer'.link))]_vars

\* C7 (amended): a link is admitted, and its clean form appended to
\* pendingUrls, if and only if the five conditions hold, the link as written is
\* in neither set, and the link does not end with "#".
C7_AdmittedIffSix ==
    [][OfferStep =>
          LET link == lastOffer'.link
              ok == /\ FiveConditions(link)
                    /\ link \notin visitedUrls \cup SetValues(pendingUrls)
                    /\ ~ (link.hash # <<>> /\ link.hash[Len(link.hash)] = "#")
          IN  /\ lastOffer'.admitted <=> ok
              /\ pendingUrls' = IF ok THEN Append(pendingUrls, CleanUrl(link)) ELSE pendingUrls]_vars

C7_Witness ==
    /\ pc = "links"
    /\ lastOffer.link.hash = <<"#">>
    /\ ~ lastOffer.admitted
    /\ ~ SetHas(pendingUrls, CleanUrl(lastOffer.link))
    /\ CleanUrl(lastOffer.link) \notin visitedUrls

\* C8 (as claimed): the URL appended to pendingUrls for an admitted link is the
\* link without its fragment: protocol, host with port, path and query are kept.
C8_EnqueuedIsLinkWithoutFragment ==
    [][(OfferStep /\ lastOffer'.admitted) =>
          LET link == lastOffer'.link
              enqueued == pendingUrls'[Len(pendingUrls')]
          IN  /\ enqueued.protocol = link.protocol
              /\ Host(enqueued) = Host(link)
              /\ Pathname(enqueued) = Pathname(link)
              /\ Search(enqueued) = Search(link)
              /\ enqueued.hash = <<>>]_vars

\* C9: every URL in pendingUrls or visitedUrls, and every URL passed to
\* scrapePage, has the hostname of the root URL.
C9_SameHostname ==
    \A u \in SetValues(pendingUrls) \cup visitedUrls \cup BagToSet(scrapeCalls) :
        Hostname(u) = Hostname(baseUrl)

C9_Witness ==
    /\ pc = "links"
    /\ Hostname(lastOffer.link) # Hostname(baseUrl)
    /\ ~ lastOffer.admitted
    /\ visitedUrls # {}
    /\ Len(pendingUrls) > 0

\* C10 (as claimed): whatever the server answered, a second downloadResource
\* call for a URL issues no request and returns success, and the URL has been
\* transferred exactly once.
C10_SecondCallIsNoOp ==
    [][(ReturnStep /\ CopiesIn(dl.url, calls) >= 1) =>
          /\ dl'.result = "true"
          /\ dl'.requests = 0
          /\ CopiesIn(dl.url, transfers') = 1]_vars

\* a downloadResource call (the outer one or the retry after a redirect) is at
\* its head and one of its two early returns applies
AtShortcut == pc = "download" /\ dl.phase = "entry" /\ Shortcut(dl.req, dl.path) # "none"

\* C11: when the URL is in downloadedResources or a file exists at the
\* destination path, the step downloadResource takes returns success, issues
\* no HTTP request and leaves the files on disk as they are.
C11_ShortcutTouchesNothing ==
    [][(AtShortcut /\ dl' # dl) =>
          /\ dl'.phase = "returned"
          /\ dl'.result = "true"
          /\ dl'.requests = dl.requests
          /\ transfers' = transfers
          /\ disk' = disk]_vars

\* both early returns were taken: a call returned without a request for a URL
\* that no call had fetched, because the file was there
C11_Witness ==
    /\ dl.phase = "returned"
    /\ dl.result = "true"
    /\ dl.requests = 0
    /\ dl.url \notin fetched200
    /\ dl.url \in downloadedResources
    /\ dl.path \in DOMAIN disk

\* C12 (as claimed): a call that followed a redirect returns success only
\* with the body of the redirect target written at the destination path, and
\* the Resource Map then maps the URL the call was made for to that path.
C12_RedirectedFileWritten ==
    [][(ReturnStep /\ dl.redirects >= 1 /\ dl'.result = "true") =>
          /\ dl.path \in DOMAIN disk'
          /\ disk'[dl.path] = BodyOf(dl.req)
          /\ LoopReturnStep =>
                \E i \in 1..Len(resourceMap') :
                    resourceMap'[i] = [key |-> dl.url, value |-> dl.path]]_vars

\* C13 (as claimed): no downloadResource call settles by rejecting; every
\* failure is the returned value false.
C13_NeverRejects == dl.result # "rejected"

\* C14 (as claimed): no downloadResource call takes the file-exists return on
\* the file a failed call left at the same destination path.
C14_NoShortcutOnLeftover ==
    [][(AtShortcut /\ dl' # dl /\ Shortcut(dl.req, dl.path) = "exists") =>
          ~ (/\ disk[dl.path] = EmptyFile
             /\ \E f \in failedFetches : f.path = dl.path)]_vars

\* C15 (as claimed): no HTTP request is issued for a URL whose download failed
\* earlier in the run.
C15_FailedNotRequestedAgain ==
    [][(pc = "download" /\ dl'.requests = dl.requests + 1) =>
          ~ \E f \in failedFetches : f.url = dl.req]_vars

\* C17 (as claimed): every HTTP request of the fetcher, redirect follow-ups
\* included, goes to the host of the site being mirrored.
C17_RequestsStayOnHost ==
    \A u \in BagToSet(transfers) : Hostname(u) = Hostname(baseUrl)

\* the step saves the rewritten page
SaveStep == pc = "save" /\ pc' = "mark" /\ ~ pageFailed'

\* C16 (as claimed): the Resource Map gets an entry for a URL only when its
\* download returned success, and in the saved page every resource attribute
\* whose URL has no entry in the Resource Map keeps the value it had in the
\* rendered markup.
C16_UnmappedLeftAlone ==
    /\ [][LoopReturnStep => (MapHas(resourceMap', dl.url) <=> dl'.result = "true")]_vars
    /\ [][SaveStep =>
             \A r \in seenResources :
                 ~ MapHas(resourceMap, r) =>
                     disk'[PageFullPath(currentUrl)].refs[r] = Href(r)]_vars

\* the crawl of the worked example is over and everything in it succeeded:
\* the root https://ex.com/ and /about were rendered and saved, both load
\* /style.css, and the one request for it was answered 200
ExampleCrawled ==
    /\ site.anchors = ExampleAnchors
    /\ baseUrl = Url("https:", "ex.com", "", <<"/">>, <<>>, <<>>)
    /\ pc = "done"
    /\ visitedUrls = {baseUrl} \cup ExampleAnchors
    /\ failedPages = {}
    /\ failedFetches = {}
    /\ fetched200 = ExampleResources
    /\ BagToSet(transfers) = ExampleResources
    /\ \A u \in visitedUrls : /\ PageFullPath(u) \in DOMAIN disk
                               /\ disk[PageFullPath(u)].kind = "page"
                               /\ DOMAIN disk[PageFullPath(u)].refs = ExampleResources

IndexHtml == <<"i","n","d","e","x",".","h","t","m","l">>

AboutHtml == <<"a","b","o","u","t",".","h","t","m","l">>

AssetsStyleCss == <<"a","s","s","e","t","s","/","s","t","y","l","e",".","c","s","s">>

\* the three files of the example are on disk and index.html refers to the
\* stylesheet as assets/style.css
ExampleFiles ==
    /\ {IndexHtml, AboutHtml, AssetsStyleCss} \subseteq DOMAIN disk
    /\ \A r \in ExampleResources :
          /\ disk[AssetsStyleCss] = BodyOf(r)
          /\ disk[IndexHtml].refs[r] = AssetsStyleCss

\* C20 (as claimed): in the example the stylesheet reference of about.html
\* reads ../assets/style.css.
C20_AboutRefersUpward ==
    ExampleCrawled =>
        /\ ExampleFiles
        /\ \A r \in ExampleResources :
              disk[AboutHtml].refs[r] = <<".",".","/">> \o AssetsStyleCss

\* C20 (amended): in the example the crawl writes index.html, about.html and
\* assets/style.css, and the stylesheet reference reads assets/style.css in
\* index.html and in about.html, which both lie in the output directory.
C20_AboutRefersToAssets ==
    ExampleCrawled =>
        /\ ExampleFiles
        /\ \A r \in ExampleResources : disk[AboutHtml].refs[r] = AssetsStyleCss

C20_Witness ==
    /\ ExampleCrawled
    /\ ExampleFiles
    /\ unlinkQueue = {}

\* C18 (as claimed): two calls of the same path function with the same URL
\* return the same path, whenever they are made.
C18_PathsDeterministic ==
    \A a, b \in resolved : (a.fn = b.fn /\ a.url = b.url) => a.path = b.path

\* C19 (as claimed): getResourcePath maps two URLs of one host that differ in
\* their path and have equal (or no) query strings to different local paths.
C19_PathsInjective ==
    \A a, b \in resolved :
        (/\ a.fn = "getResourcePath" /\ b.fn = "getResourcePath"
         /\ Parses(a.url) /\ Parses(b.url)
         /\ Host(a.url) = Host(b.url)
         /\ Pathname(a.url) # Pathname(b.url)
         /\ Search(a.url) = Search(b.url))
        => a.path # b.path

AssetsDir == <<"a","s","s","e","t","s","/">>

\* C30 (as claimed): every path getResourcePath returns starts with one
\* assets/ segment and never with assets/assets/.
C30_OneAssetsPrefix ==
    \A a \in resolved :
        a.fn = "getResourcePath" =>
            /\ StartsWith(a.path, AssetsDir)
            /\ ~ StartsWith(a.path, AssetsDir \o AssetsDir)

\* C23 (as claimed): when the crawl loop has ended the Site Index holds a
\* record for every processed page, failed or not: this.sitemap.size equals
\* the number of URLs in visitedUrls.
C23_OneRecordPerPage ==
    LoopEnded => /\ sitemap = visitedUrls
                 /\ Cardinality(sitemap) = Cardinality(visitedUrls)

\* the page list of a manifest file holds the keys of this.sitemap in the
\* order of localeCompare
ManifestSorted(file) ==
    LET pages == disk[file].pages
    IN  /\ { pages[i] : i \in 1..Len(pages) } = sitemap
        /\ \A i, j \in 1..Len(pages) :
               i < j => ComesBefore(UrlString(pages[i]), UrlString(pages[j]))

Aborted == pc = "done" /\ admitted = {}

\* C26 (as claimed): when initialize() fails no URL is dequeued and no page
\* document or manifest is written; and the crawl loop is left in no other
\* way than by its condition, with pendingUrls empty.
C26_OnlyStartupAborts ==
    /\ [](Aborted => /\ dequeues = EmptyBag
                     /\ scrapeCalls = EmptyBag
                     /\ visitedUrls = {}
                     /\ DOMAIN disk = {})
    /\ [][(pc \notin {"start", "sitemap", "done"} /\ pc' \in {"sitemap", "done", "crashed"}) =>
             /\ pc = "loop"
             /\ pc' = "sitemap"
             /\ Len(pendingUrls) = 0]_vars

\* a downloadResource call of the resource loop settles with a failure
FailedReturnStep ==
    /\ pc = "download"
    /\ dl.result = "none"
    /\ dl'.result \in {"false", "rejected"}

\* the call that settles was made by processCssFile
InCss == ~ LoopReturnStep

DequeueStep == dequeues' # dequeues

\* C25 (as claimed): when the scrape loop dequeues a URL no download is in
\* flight and no resource of the previous page is left, and every URL passed
\* to scrapePage before is in visitedUrls, has its document or placeholder on
\* disk and has its record in the sitemap.
C25_OnePageInFlight ==
    [][DequeueStep =>
          /\ pc = "loop"
          /\ dl.phase \notin {"entry", "request"}
          /\ resourcesLeft = 0
          /\ \A u \in BagToSet(scrapeCalls) :
                /\ u \in visitedUrls
                /\ PageFullPath(u) \in DOMAIN disk
                /\ u \in sitemap]_vars

\* every same-host resource the page refers to has an entry in resourceMap
FullyCovered ==
    \A r \in seenResources : Hostname(r) = baseDomain => MapHas(resourceMap, r)

\* C22 (as claimed): when a page whose Resource Map covers all its same-host
\* resource references is saved, no same-host anchor or resource reference
\* of the saved markup is an absolute URL, and every off-host anchor or
\* resource reference has the value it had before the rewrite.
C22_RoundTrip ==
    [][(SaveStep /\ FullyCovered) =>
          LET refs == disk'[PageFullPath(currentUrl)].refs
          IN  /\ \A r \in seenResources :
                    IF Hostname(r) = baseDomain
                    THEN ~ IsAbsoluteUrl(refs[r])
                    ELSE refs[r] = Href(r)
              /\ \A a \in site.anchors :
                    IF Hostname(a) = baseDomain
                    THEN ~ IsAbsoluteUrl(rewriteAnchor(a))
                    ELSE rewriteAnchor(a) = Href(a)]_vars

\* the number of parent directories of a file below the output root
DirDepth(file) == Cardinality({ i \in 1..Len(file) : file[i] = "/" })

\* C21 (as claimed): in a saved page every reference to a resource of its
\* Resource Map is the resource's path below the output root prefixed by one
\* "../" for every parent directory the saved page file has below the root.
C21_DepthCorrect ==
    [][SaveStep =>
          LET file == PageFullPath(currentUrl)
          IN  \A r \in seenResources :
                 MapHas(resourceMap, r) =>
                     disk'[file].refs[r] =
                         Repeat(<<".",".","/">>, DirDepth(file)) \o MapGet(resourceMap, r)]_vars

\* the step is a downloadResource call made by the resource loop of scrapePage
ResourceCallStep == pc = "resources" /\ pc' = "download"

\* C28 (as claimed): the resource loop of a page makes no downloadResource
\* call once a processCssFile call has started for that page.
C28_CssAfterAllDownloads == [][ResourceCallStep => ~ css.begun]_vars

\* the step is the end of a processCssFile call
CssDoneStep == pc = "css" /\ css.left = <<>> /\ pc' # "css"

\* the url() occurrence refers to another host than the stylesheet's
OffHost(match, originalCssUrl) ==
    Hostname(ResolveUrl(match.value, originalCssUrl)) # Hostname(originalCssUrl)

\* C29: processCssFile writes nothing while it goes through the url()
\* occurrences; at its end it writes at most the stylesheet file, and only
\* if some occurrence was substituted; without a substitution the files are
\* as they were; and every occurrence that refers to another host is in the
\* file afterwards as it was read.
C29_WritesOnlySubstitutions ==
    /\ [][(pc = "css" /\ pc' = "css" /\ css' # css) => disk' = disk]_vars
    /\ [][CssDoneStep =>
             /\ disk' # disk =>
                   /\ css.subs > 0
                   /\ DOMAIN disk' = DOMAIN disk \cup {css.file}
                   /\ \A f \in DOMAIN disk : f # css.file => disk'[f] = disk[f]
             /\ css.subs = 0 => disk' = disk
             /\ css.file \in DOMAIN disk' =>
                   \A i \in 1..Len(css.orig) :
                       OffHost(css.orig[i], css.url) =>
                           /\ Len(UrlMatches(disk'[css.file])) = Len(css.orig)
                           /\ UrlMatches(disk'[css.file])[i] = css.orig[i]]_vars

\* a stylesheet was rewritten: its reference to the host is a relative path
\* now, its reference to the other host is as it was served
C29_Witness ==
    \E f \in DOMAIN disk :
        /\ disk[f].kind = "css"
        /\ Len(disk[f].tokens) = 2
        /\ disk[f].tokens[1] = [quoted |-> TRUE, value |-> <<"b",".","p","n","g">>]
        /\ disk[f].tokens[2] = StyledSheet[2]

\* the URL without its query string
WithoutSearch(u) == [u EXCEPT !.search = <<>>]

\* C31 (as claimed): for a URL with a query string getResourcePath returns
\* the path of the same URL without the query, with "_" and the sanitized
\* query inserted before the extension (at the end when there is none).
C31_QueryBeforeExtension ==
    \A a \in resolved :
        (a.fn = "getResourcePath" /\ Parses(a.url) /\ Search(a.url) # <<>>) =>
            \E now \in Clock :
                LET plain == getResourcePath(WithoutSearch(a.url), now)
                    ext   == ExtName(plain)
                    query == ReplaceChars(SubSeq(Search(a.url), 2, Len(Search(a.url))),
                                          InvalidQueryChars)
                IN  a.path = SubSeq(plain, 1, Len(plain) - Len(ext))
                                 \o <<"_">> \o query \o ext

\* a src or href attribute was rewritten on its own
AttributeRewrites == { a \in resolved : a.fn = "replaceUrlInAttribute" }

\* the form under which value designates the resource u: 1 for the full URL,
\* 2 for the protocol-relative form, 3 for the path (with or without query,
\* with or without leading slash, or as the end of the value), 0 for none
MatchForm(value, u) ==
    IF SameString(value, Href(u)) THEN 1
    ELSE IF SameString(value, Tail(Href(u))) THEN 2
    ELSE IF \/ SameString(value, Pathname(u))
            \/ SameString(value, Pathname(u) \o u.search)
            \/ PathMatch(value, Href(u))
    THEN 3
    ELSE 0

\* C32 (as claimed): when the value of an attribute matches entries of the
\* Resource Map, the local path written is that of an entry matching under
\* the best form (full URL before protocol-relative before path), whatever
\* the order in which the resources were inserted.
C32_BestFormWins ==
    \A a \in AttributeRewrites :
        LET entries == { i \in 1..Len(a.mapping) : MatchForm(a.value, a.mapping[i].key) > 0 }
            best    == { i \in entries : \A j \in entries :
                            MatchForm(a.value, a.mapping[i].key) <= MatchForm(a.value, a.mapping[j].key) }
        IN  entries # {} =>
                \E i \in best : a.result = makeRelativePath(a.mapping[i].value, a.page)

\* a srcset attribute was rewritten on its own
SrcsetRewrites == { a \in resolved : a.fn = "replaceUrlInSrcset" }

\* C33 (as claimed): every candidate of a srcset is handled on its own: a
\* candidate whose URL is a key of the Resource Map becomes the page-relative
\* local path of that resource, any other candidate stays as it was, and
\* the descriptors and the order of the candidates stay as they were.
C33_SrcsetCandidatesIndependent ==
    \A a \in SrcsetRewrites :
        /\ Len(a.result) = Len(a.value)
        /\ \A n \in 1..Len(a.value) :
               LET url  == CandidateUrl(a.value[n])
                   own  == { i \in 1..Len(a.mapping) : SameString(url, Href(a.mapping[i].key)) }
               IN  /\ CandidateDescriptor(a.result[n]) = CandidateDescriptor(a.value[n])
                   /\ own = {} => CandidateUrl(a.result[n]) = url
                   /\ \A i \in own :
                          CandidateUrl(a.result[n]) = makeRelativePath(a.mapping[i].value, a.page)

\* the file a relative href of the page saved at file designates
Designates(file, href) ==
    IF Dirname(file) = <<".">> THEN JoinOutputDir(href)
    ELSE JoinOutputDir(Dirname(file) \o <<"/">> \o href)

\* C34 (as claimed): when a page is saved, the rewritten href of each of its
\* same-host anchors, resolved against the directory of the page's own file,
\* designates the file under which the page the anchor points to is saved.
C34_AnchorDesignatesSavedFile ==
    [][SaveStep =>
          \A a \in site.anchors :
              Hostname(a) = baseDomain =>
                  Designates(PageFullPath(currentUrl), rewriteAnchor(a))
                      = PageFullPath(CleanUrl(a))]_vars

\* C35 (as claimed): every fileName of the manifest designates the file
\* under which scrapePage saved the document of that page.
C35_ManifestNamesSavedFile ==
    SitemapJson \in DOMAIN disk =>
        LET manifest == disk[SitemapJson]
        IN  \A i \in 1..Len(manifest.pages) :
                JoinOutputDir(manifest.fileNames[manifest.pages[i]])
                    = PageFullPath(manifest.pages[i])

\* C36 (as claimed): every downloadResource call settles, whatever the server
\* answers, redirects that lead back to an earlier URL included, and the
\* crawl loop comes to its end.
C36_EveryCallSettles ==
    /\ (pc = "download") ~> (pc # "download")
    /\ <>LoopEnded

\* the step is the return of a downloadResource call with success
SuccessStep == ReturnStep /\ dl'.result = "true"

\* C37 (as claimed): a URL enters downloadedResources only as a
\* downloadResource call for it returns success, and when a call
\* downloadResource(url, path) returns success, after a request, a shortcut
\* or a redirect, url is in downloadedResources and there is a file at path.
C37_DownloadedMeansFetched ==
    /\ [][downloadedResources' \subseteq
              downloadedResources \cup (IF SuccessStep THEN {dl.req} ELSE {})]_vars
    /\ [][SuccessStep => /\ dl.url \in downloadedResources'
                         /\ dl.path \in DOMAIN disk']_vars

\* C39 (as claimed): when the resource loop of a page has fetched two URLs
\* with one local path, both with success, the file at that path holds the
\* body of the URL fetched last.
C39_LastWriteWins ==
    \A i, j \in 1..Len(resourceMap) :
        (i < j /\ resourceMap[i].value = resourceMap[j].value /\ unlinkQueue = {}) =>
            /\ resourceMap[j].value \in DOMAIN disk
            /\ disk[resourceMap[j].value] = BodyOf(resourceMap[j].key)

\* the processCssFile call that is ending read a stylesheet that an earlier
\* call with the same original URL had written
Reprocessed ==
    /\ css.file \in DOMAIN disk
    /\ disk[css.file].kind = "css"
    /\ disk[css.file].url = css.url

\* C38 (as claimed): a processCssFile call on a stylesheet that an earlier
\* call with the same original URL has rewritten leaves the file as it is:
\* every url() occurrence is put back as it was read and nothing is written.
C38_SecondPassChangesNothing ==
    [][(CssDoneStep /\ Reprocessed) =>
           /\ css.text = css.orig
           /\ disk' = disk]_vars

====
